---------------------------- MODULE Spec2Model ----------------------------
(***************************************************************************)
(* Model of calculate_light_analysis (src/led_plant_analysis.py), the      *)
(* spectral-metrics engine of the LED plant-lighting analyser: one request *)
(* (a table df and the lamp parameters) is taken through column check,     *)
(* cleaning, the integration series and its NaN/Inf filter, the nine band  *)
(* sums and the result record.                                             *)
(*                                                                         *)
(* Numbers.  A float64 is a record [k, v]: k = "num" (finite, value v),    *)
(* k = "inf" (v = 1 or -1) or k = "nan".  Finite magnitudes are small      *)
(* integers, so rounding and overflow of finite products are not           *)
(* modelled; infinities enter through the input cells, as they do when a   *)
(* file holds "inf".  The integration series wavelength*radiation/119.8    *)
(* is held exactly, as numerators over the common denominator              *)
(* IntegrationDen (119.8 = 1198/10).                                       *)
(*                                                                         *)
(* Tables.  A cell of the input table is a float, a null (empty cell), a   *)
(* "text" (a string that is no number) or a "numtext" (a string that       *)
(* spells the number v).  The labels of the columns after the first two    *)
(* are taken to differ from 'wavelength' and 'radiation'.  The st.* calls  *)
(* are display only; of them st.error is kept (st_error), with the causes  *)
(* listed under the empty-after-cleaning error (issues_found).  A returned *)
(* result goes on to display_results, of which the priority pass over the  *)
(* suggestions is kept (priority_suggestions).                             *)
(***************************************************************************)
EXTENDS Integers, Sequences, FiniteSets, TLC

VARIABLES
    df,                    \* the input table: [ncols, rows]
    total_radiation_flux,  \* lamp parameter (W)
    total_power,           \* lamp parameter (W)
    pc,                    \* position in calculate_light_analysis
    st_error,              \* the st.error message shown, "" when none
    exception,             \* the exception that left the function, "" when none
    df_clean,              \* the cleaned table, None before cleaning
    wavelength,            \* numpy array of floats
    radiation,             \* numpy array of floats
    integration_values,    \* numpy array: numerators over IntegrationDen
    sums,                  \* the band sums and totals, None before they exist
    ret,                   \* the returned pair <<results, df_clean>>, <<>> before
    issues_found,          \* the causes listed under the empty-after-cleaning error
    priority_suggestions   \* display_results: the suggestions by tier, None before

vars == <<df, total_radiation_flux, total_power, pc, st_error, exception,
          df_clean, wavelength, radiation, integration_values, sums, ret,
          issues_found, priority_suggestions>>

\* what is shown beside st.error
display == <<issues_found, priority_suggestions>>

inputs == <<df, total_radiation_flux, total_power>>

-----------------------------------------------------------------------------
(* Bounds of the model *)

MaxRows == 2

-----------------------------------------------------------------------------
(* float64 values *)

FNum(n) == [k |-> "num", v |-> n]
PInf == [k |-> "inf", v |-> 1]
NInf == [k |-> "inf", v |-> -1]
NaN == [k |-> "nan", v |-> 0]

None == [k |-> "None"]

Sign(x) == IF x.v > 0 THEN 1 ELSE IF x.v < 0 THEN -1 ELSE 0

isnan(x) == x.k = "nan"
isinf(x) == x.k = "inf"

\* IEEE product: nan absorbs, inf * 0 = nan, inf * x = +-inf.
FMul(a, b) ==
    IF isnan(a) \/ isnan(b) THEN NaN
    ELSE IF isinf(a) \/ isinf(b)
         THEN IF Sign(a) * Sign(b) = 0 THEN NaN
              ELSE [k |-> "inf", v |-> Sign(a) * Sign(b)]
         ELSE FNum(a.v * b.v)

\* IEEE sum: nan absorbs, inf + (-inf) = nan.
FAdd(a, b) ==
    IF isnan(a) \/ isnan(b) THEN NaN
    ELSE IF isinf(a) /\ isinf(b) THEN (IF a.v = b.v THEN a ELSE NaN)
    ELSE IF isinf(a) THEN a
    ELSE IF isinf(b) THEN b
    ELSE FNum(a.v + b.v)

\* x >= n, x < n, x <= n, x > n for a float x and an integer n (false on nan).
FGe(x, n) == (x.k = "num" /\ x.v >= n) \/ (x.k = "inf" /\ x.v = 1)
FLt(x, n) == (x.k = "num" /\ x.v < n) \/ (x.k = "inf" /\ x.v = -1)
FLe(x, n) == (x.k = "num" /\ x.v <= n) \/ (x.k = "inf" /\ x.v = -1)
FGt(x, n) == (x.k = "num" /\ x.v > n) \/ (x.k = "inf" /\ x.v = 1)

\* np.sum of an array of floats.
RECURSIVE np_sum(_)
np_sum(a) == IF a = <<>> THEN FNum(0) ELSE FAdd(np_sum(SubSeq(a, 1, Len(a) - 1)), a[Len(a)])

-----------------------------------------------------------------------------
(* Input cells and pd.to_numeric(errors='coerce') *)

Null == [k |-> "null", v |-> 0]
Text == [k |-> "text", v |-> 0]
NumText(n) == [k |-> "numtext", v |-> n]

\* Series.isnull(): empty cells and nan
isnull(c) == c.k \in {"null", "nan"}

\* errors='coerce' mistaken for a fill with 0
to_numeric_fill_zero(c) ==
    CASE c.k \in {"num", "inf", "nan"} -> c
      [] c.k = "numtext" -> FNum(c.v)
      [] OTHER -> FNum(0)

\* a parser of strings only: a cell that is a float already is not accepted
to_numeric_text_only(c) ==
    CASE c.k = "numtext" -> FNum(c.v)
      [] OTHER -> NaN

to_numeric(c) ==
    CASE c.k \in {"num", "inf", "nan"} -> c
      [] c.k = "numtext" -> FNum(c.v)
      [] OTHER -> NaN


-----------------------------------------------------------------------------
(* Cleaning: lines 2119-2247 *)

\* if df.shape[1] < 2
TooFewColumnsOffByOne(d) == d.ncols < 1
TooFewColumns(d) == d.ncols < 2

\* df_converted: columns 0 and 1 through pd.to_numeric, the others as they are
Converted(rows) ==
    [i \in 1..Len(rows) |->
        [j \in 1..Len(rows[i]) |-> IF j <= 2 THEN to_numeric(rows[i][j]) ELSE rows[i][j]]]

\* the columns dropna looks at: subset=['wavelength', 'radiation']
DropnaEveryColumn(ncols) == 1..ncols
DropnaSubset(ncols) == {1, 2}

\* DataFrame.dropna(subset=...): the rows with no null in the subset, in order
dropna(rows, subset) ==
    SelectSeq(rows, LAMBDA r : \A j \in subset : ~isnull(r[j]))

\* df_clean of a table with at least two columns
CleanRows(d) == dropna(Converted(d.rows), DropnaSubset(d.ncols))

\* df_clean['wavelength'].astype(float).values, df_clean['radiation']...
Column(rows, j) == [i \in 1..Len(rows) |-> rows[i][j]]

Min(a, b) == IF a <= b THEN a ELSE b

\* lines 2234-2242: the two arrays, cut to the shorter one
WavelengthArray(d) ==
    SubSeq(Column(d.rows, 1), 1, Min(Len(Column(d.rows, 1)), Len(Column(d.rows, 2))))
RadiationArray(d) ==
    SubSeq(Column(d.rows, 2), 1, Min(Len(Column(d.rows, 1)), Len(Column(d.rows, 2))))

-----------------------------------------------------------------------------
(* Integration series and its filter: lines 2249-2267 *)

IntegrationDen == 1198

\* (wavelength * radiation) / 119.8, as a numerator over IntegrationDen
Integration(w, r) == FMul(FMul(w, r), FNum(10))

IntegrationArray(w, r) == [i \in 1..Len(w) |-> Integration(w[i], r[i])]

\* ~(np.isnan(x) | np.isinf(x))
ValidNanOnly(x) == ~isnan(x)
Valid(x) == ~(isnan(x) \/ isinf(x))

ValidMask(iv) == [i \in 1..Len(iv) |-> Valid(iv[i])]

\* np.any(mask)
np_any(mask) == \E i \in 1..Len(mask) : mask[i]

\* a[mask] for a boolean mask of the array's length; numpy raises IndexError
\* when the lengths differ.
RECURSIVE boolean_index(_, _)
boolean_index(a, mask) ==
    IF a = <<>> \/ mask = <<>> THEN <<>>
    ELSE LET n == Len(a)
             rest == boolean_index(SubSeq(a, 1, n - 1), SubSeq(mask, 1, n - 1))
         IN IF mask[n] THEN Append(rest, a[n]) ELSE rest

IndexErrorRaised(a, mask) == Len(a) # Len(mask)

-----------------------------------------------------------------------------
(* Band sums: lines 2273-2326 *)

\* the upper test of a band: <= with include_upper, < without
UpperTestInclusive(x, max_wave, include_upper) == FLe(x, max_wave)
UpperTest(x, max_wave, include_upper) ==
    IF include_upper THEN FLe(x, max_wave) ELSE FLt(x, max_wave)

\* mask = (df_data['wavelength'] >= min_wave) & (df_data['wavelength'] < max_wave)
RangeMask(df_data, min_wave, max_wave, include_upper) ==
    [i \in 1..Len(df_data.rows) |->
        FGe(df_data.rows[i][1], min_wave)
        /\ UpperTest(df_data.rows[i][1], max_wave, include_upper)]

calculate_wavelength_range_integration(df_data, integration_vals, min_wave, max_wave, include_upper) ==
    np_sum(boolean_index(integration_vals, RangeMask(df_data, min_wave, max_wave, include_upper)))

calculate_wavelength_range_radiation(df_data, radiation_vals, min_wave, max_wave, include_upper) ==
    np_sum(boolean_index(radiation_vals, RangeMask(df_data, min_wave, max_wave, include_upper)))

\* light_quality_total = blue + green + red + far_red
LightQualityTotal(b) ==
    FAdd(FAdd(FAdd(b.blue_integration, b.green_integration), b.red_integration),
         b.far_red_integration)

\* extended_light_quality = uva + violet + blue + green + red + far_red + nir
ExtendedLightQualityNoBlue(b) ==
    FAdd(FAdd(FAdd(FAdd(FAdd(b.uva_integration, b.violet_integration),
        b.green_integration), b.red_integration),
        b.far_red_integration), b.nir_integration)
ExtendedLightQuality(b) ==
    FAdd(FAdd(FAdd(FAdd(FAdd(FAdd(b.uva_integration, b.violet_integration),
        b.blue_integration), b.green_integration), b.red_integration),
        b.far_red_integration), b.nir_integration)

\* the nine band sums (include_upper is left at its default, False)
BandSums(df_data, rad, iv) ==
    [par_integration |-> calculate_wavelength_range_radiation(df_data, rad, 400, 700, FALSE),
     blue_integration |-> calculate_wavelength_range_integration(df_data, iv, 400, 500, FALSE),
     green_integration |-> calculate_wavelength_range_integration(df_data, iv, 500, 600, FALSE),
     red_integration |-> calculate_wavelength_range_integration(df_data, iv, 600, 700, FALSE),
     far_red_integration |-> calculate_wavelength_range_integration(df_data, iv, 700, 800, FALSE),
     uva_integration |-> calculate_wavelength_range_integration(df_data, iv, 315, 400, FALSE),
     uvb_integration |-> calculate_wavelength_range_integration(df_data, iv, 280, 315, FALSE),
     violet_integration |-> calculate_wavelength_range_integration(df_data, iv, 380, 420, FALSE),
     nir_integration |-> calculate_wavelength_range_integration(df_data, iv, 700, 850, FALSE)]

\* the band sums with the two totals of lines 2274-2277 and 2325-2326
Calculations(df_data, rad, iv) ==
    LET b == BandSums(df_data, rad, iv)
    IN [k |-> "calculations",
        photosynthetic_active |-> np_sum(iv),
        total_integration |-> np_sum(rad),
        par_integration |-> b.par_integration,
        blue_integration |-> b.blue_integration,
        green_integration |-> b.green_integration,
        red_integration |-> b.red_integration,
        far_red_integration |-> b.far_red_integration,
        uva_integration |-> b.uva_integration,
        uvb_integration |-> b.uvb_integration,
        violet_integration |-> b.violet_integration,
        nir_integration |-> b.nir_integration,
        light_quality_total |-> LightQualityTotal(b),
        extended_light_quality |-> ExtendedLightQuality(b)]

-----------------------------------------------------------------------------
(* The requests: the table handed over by main and the lamp parameters *)

\* cells of the wavelength column, of the radiation column and of a third column
WavelengthCells == {Null, Text, NumText(450), FNum(390), PInf}
RadiationCells == {Null, Text, FNum(0), NumText(2), PInf}
ExtraCells == {Null, FNum(7)}

RowsOf(ncols) ==
    CASE ncols = 1 -> {<<w>> : w \in WavelengthCells}
      [] ncols = 2 -> {<<w, r>> : w \in WavelengthCells, r \in RadiationCells}
      [] OTHER -> {<<w, r, x>> : w \in {Text, NumText(450)}, r \in {FNum(0), NumText(2)},
                                 x \in ExtraCells}

SeqUpTo(S, n) == UNION {[1..m -> S] : m \in 0..n}

Tables == {[ncols |-> n, rows |-> rs] : n \in {1}, rs \in SeqUpTo(RowsOf(1), MaxRows)}
          \cup {[ncols |-> n, rows |-> rs] : n \in {2}, rs \in SeqUpTo(RowsOf(2), MaxRows)}
          \cup {[ncols |-> n, rows |-> rs] : n \in {3}, rs \in SeqUpTo(RowsOf(3), MaxRows)}

\* numeric spectra on the band limits, with radiation of either sign
BandLimits == {280, 315, 380, 400, 420, 500, 600, 700, 800, 850}
BandRows == {<<w, r>> : w \in {FNum(n) : n \in BandLimits} \cup {PInf},
                        r \in {FNum(-1), FNum(2)}}
BandTables == {[ncols |-> 2, rows |-> rs] : rs \in SeqUpTo(BandRows, MaxRows)}
              \cup {[ncols |-> 1, rows |-> rs] : rs \in SeqUpTo({<<FNum(450)>>}, MaxRows)}

\* st.number_input(min_value=0.0): the lamp parameters are not negative
PowerValues == {0, 100}
FluxValues == {30}

\* a spectrometer grid: one sample in each of UV-A, Blue, Green, Red and FarRed
\* (the last also in NIR), of radiation 0..MaxRadiation
MaxRadiation == 3
GridWavelengths == <<350, 450, 550, 650, 750>>
GridTables ==
    {[ncols |-> 2,
      rows |-> [i \in 1..Len(GridWavelengths) |-> <<FNum(GridWavelengths[i]), FNum(r[i])>>]] :
        r \in [1..Len(GridWavelengths) -> 0..MaxRadiation]}

\* a UV-B sample beside a Blue sample
UvbWavelengths == <<300, 450>>
UvbTables ==
    {[ncols |-> 2,
      rows |-> [i \in 1..Len(UvbWavelengths) |-> <<FNum(UvbWavelengths[i]), FNum(r[i])>>]] :
        r \in [1..Len(UvbWavelengths) -> 0..MaxRadiation]}

\* tables that end in each of the failures
EdgeTables ==
    {[ncols |-> 1, rows |-> << <<FNum(450)>> >>],
     [ncols |-> 2, rows |-> << <<Text, FNum(2)>> >>],
     [ncols |-> 2, rows |-> << <<PInf, FNum(2)>> >>],
     [ncols |-> 2, rows |-> << <<FNum(450), FNum(2)>>, <<PInf, FNum(2)>> >>]}

GridFluxValues == {30, 60}

StartLamp(tables, fluxes, powers) ==
    /\ df \in tables
    /\ total_radiation_flux \in fluxes
    /\ total_power \in powers
    /\ pc = "start"
    /\ st_error = ""
    /\ exception = ""
    /\ df_clean = None
    /\ wavelength = <<>>
    /\ radiation = <<>>
    /\ integration_values = <<>>
    /\ sums = None
    /\ ret = <<>>
    /\ issues_found = <<>>
    /\ priority_suggestions = None

Start(tables) == StartLamp(tables, FluxValues, PowerValues)

Init == Start(Tables)
InitBands == Start(BandTables)
InitGrid ==
    StartLamp(GridTables \cup UvbTables \cup EdgeTables, GridFluxValues, PowerValues)

-----------------------------------------------------------------------------
(* calculate_light_analysis, step by step *)

\* one message for every failure
FailOneMessage(msg) ==
    /\ st_error' = "error"
    /\ ret' = <<None, None>>
    /\ pc' = "returned"

\* return None, None after st.error(msg)
Fail(msg) ==
    /\ st_error' = msg
    /\ ret' = <<None, None>>
    /\ pc' = "returned"

\* lines 2119-2122
InsufficientColumns ==
    /\ pc = "start"
    /\ TooFewColumns(df)
    /\ Fail("insufficient_columns")
    /\ UNCHANGED display
    /\ UNCHANGED <<inputs, exception, df_clean, wavelength, radiation,
                   integration_values, sums>>

\* lines 2131-2193: df.iloc[:, 1] raises IndexError on a table of one column;
\* otherwise the conversion and dropna
CleanData ==
    /\ pc = "start"
    /\ ~TooFewColumns(df)
    /\ IF df.ncols < 2
       THEN /\ exception' = "IndexError"
            /\ pc' = "raised"
            /\ UNCHANGED df_clean
       ELSE /\ df_clean' = [ncols |-> df.ncols, rows |-> CleanRows(df)]
            /\ pc' = "cleaned"
            /\ UNCHANGED exception
    /\ UNCHANGED display
    /\ UNCHANGED <<inputs, st_error, wavelength, radiation, integration_values,
                   sums, ret>>

\* lines 2137-2154: the null cells and the non-numeric cells of column col
null_count(d, col) == Cardinality({i \in 1..Len(d.rows) : isnull(d.rows[i][col])})
non_numeric(d, col) ==
    Cardinality({i \in 1..Len(d.rows) : isnan(to_numeric(d.rows[i][col]))}) - null_count(d, col)

\* lines 2204 and 2208: null_count == len(df) or non_numeric == len(df)
AllInvalid(d, col) ==
    null_count(d, col) = Len(d.rows) \/ non_numeric(d, col) = Len(d.rows)

\* lines 2201-2214: the causes listed
IssuesFound(d) ==
    LET found == (IF AllInvalid(d, 1) THEN <<"wavelength_all_invalid">> ELSE <<>>)
                 \o (IF AllInvalid(d, 2) THEN <<"radiation_all_invalid">> ELSE <<>>)
    IN IF found = <<>> THEN <<"format">> ELSE found

\* lines 2196-2226
EmptyAfterCleaning ==
    /\ pc = "cleaned"
    /\ Len(df_clean.rows) = 0
    /\ Fail("empty_after_cleaning")
    /\ issues_found' = IssuesFound(df)
    /\ UNCHANGED priority_suggestions
    /\ UNCHANGED <<inputs, exception, df_clean, wavelength, radiation,
                   integration_values, sums>>

\* lines 2234-2257: the arrays, the integration series, and no valid value in it
NoValidSamples ==
    /\ pc = "cleaned"
    /\ Len(df_clean.rows) # 0
    /\ LET w == WavelengthArray(df_clean)
           r == RadiationArray(df_clean)
           iv == IntegrationArray(w, r)
       IN /\ Len(w) = 0 \/ Len(r) = 0 \/ ~np_any(ValidMask(iv))
          /\ wavelength' = w
          /\ radiation' = r
          /\ integration_values' = IF Len(w) = 0 \/ Len(r) = 0 THEN <<>> ELSE iv
          /\ Fail(IF Len(w) = 0 \/ Len(r) = 0 THEN "empty_data" ELSE "all_invalid")
    /\ UNCHANGED display
    /\ UNCHANGED <<inputs, exception, df_clean, sums>>

\* lines 2234-2267: the arrays, the integration series, and the mask applied to
\* the three arrays
FilterInvalid ==
    /\ pc = "cleaned"
    /\ Len(df_clean.rows) # 0
    /\ LET w == WavelengthArray(df_clean)
           r == RadiationArray(df_clean)
           iv == IntegrationArray(w, r)
           valid_mask == ValidMask(iv)
       IN /\ Len(w) # 0 /\ Len(r) # 0 /\ np_any(valid_mask)
          /\ wavelength' = boolean_index(w, valid_mask)
          /\ radiation' = boolean_index(r, valid_mask)
          /\ integration_values' = boolean_index(iv, valid_mask)
          /\ IF Len(boolean_index(w, valid_mask)) = 0
             THEN Fail("none_left")
             ELSE /\ pc' = "filtered"
                  /\ UNCHANGED <<st_error, ret>>
    /\ UNCHANGED display
    /\ UNCHANGED <<inputs, exception, df_clean, sums>>

\* lines 2296-2297: the first band sum indexes an array of the filtered length
\* with a mask of df_clean's length; numpy raises IndexError when they differ,
\* outside the try block
BandSumsRaise ==
    /\ pc = "filtered"
    /\ IndexErrorRaised(radiation, RangeMask(df_clean, 400, 700, FALSE))
    /\ exception' = "IndexError"
    /\ pc' = "raised"
    /\ UNCHANGED display
    /\ UNCHANGED <<inputs, st_error, df_clean, wavelength, radiation,
                   integration_values, sums, ret>>

\* lines 2273-2326
ComputeBandSums ==
    /\ pc = "filtered"
    /\ ~IndexErrorRaised(radiation, RangeMask(df_clean, 400, 700, FALSE))
    /\ sums' = Calculations(df_clean, radiation, integration_values)
    /\ pc' = "bands"
    /\ UNCHANGED display
    /\ UNCHANGED <<inputs, st_error, exception, df_clean, wavelength, radiation,
                   integration_values, ret>>

-----------------------------------------------------------------------------
(* Quotients.  A metric is an exact fraction [n, d] in lowest terms, d > 0.   *)

RECURSIVE GCD(_, _)
GCD(a, b) == IF b = 0 THEN a ELSE GCD(b, a % b)

Abs(a) == IF a < 0 THEN -a ELSE a

\* n / d for d # 0
Q(n, d) ==
    LET g == GCD(Abs(n), Abs(d))
        s == IF d < 0 THEN -1 ELSE 1
    IN [k |-> "q", n |-> s * (n \div g), d |-> s * (d \div g)]

QZero == [k |-> "q", n |-> 0, d |-> 1]

\* what a Python float division by zero raises
ZeroDivisionError == [k |-> "ZeroDivisionError", n |-> 0, d |-> 1]

\* Python's a / b on floats
PyDiv(n, d) == IF d = 0 THEN ZeroDivisionError ELSE Q(n, d)

\* x + y
QAdd(x, y) ==
    LET g == GCD(x.d, y.d)
    IN Q(x.n * (y.d \div g) + y.n * (x.d \div g), x.d * (y.d \div g))

\* comparisons of a quotient with the decimal a / b (b > 0)
QLt(x, a, b) == x.n * b < a * x.d
QLe(x, a, b) == x.n * b <= a * x.d
QGt(x, a, b) == x.n * b > a * x.d
QGe(x, a, b) == x.n * b >= a * x.d

-----------------------------------------------------------------------------
(* Percentages and ratios: lines 2328-2375 *)

\* (band / extended_light_quality * 100) if extended_light_quality > 0 else 0
PercentageOfLightQualityTotal(band, c) ==
    IF FGt(c.light_quality_total, 0) THEN Q(band.v * 100, c.light_quality_total.v) ELSE QZero
Percentage(band, c) ==
    IF FGt(c.extended_light_quality, 0) THEN Q(band.v * 100, c.extended_light_quality.v) ELSE QZero

Percentages(c) ==
    [blue_percentage |-> Percentage(c.blue_integration, c),
     green_percentage |-> Percentage(c.green_integration, c),
     red_percentage |-> Percentage(c.red_integration, c),
     far_red_percentage |-> Percentage(c.far_red_integration, c),
     uva_percentage |-> Percentage(c.uva_integration, c),
     uvb_percentage |-> Percentage(c.uvb_integration, c),
     violet_percentage |-> Percentage(c.violet_integration, c),
     nir_percentage |-> Percentage(c.nir_integration, c)]

\* a ratio that saturates when its denominator is not positive
BandRatioSaturating(num, den) ==
    IF FGt(den, 0) THEN Q(num.v, den.v) ELSE IF FGt(num, 0) THEN Q(1000000, 1) ELSE QZero
\* numerator / denominator if denominator > 0 else 0, on two band sums
BandRatioNonZeroGuard(num, den) == IF den.v # 0 THEN Q(num.v, den.v) ELSE QZero
BandRatio(num, den) == IF FGt(den, 0) THEN Q(num.v, den.v) ELSE QZero

\* the guard of the divisions by total_power: if total_power > 0
PowerGuardDropped(power) == TRUE
PowerPositive(power) == power > 0

\* par_integration / total_integration if total_integration > 0 else 0
ParRatioOfIntegration(c) ==
    IF FGt(c.total_integration, 0)
    THEN Q(c.blue_integration.v + c.green_integration.v + c.red_integration.v,
           IntegrationDen * c.total_integration.v)
    ELSE QZero
ParRatio(c) ==
    IF FGt(c.total_integration, 0) THEN Q(c.par_integration.v, c.total_integration.v) ELSE QZero

\* lines 2341-2375 and 2584-2589
Ratios(c, flux, power) ==
    LET light_energy_ratio ==
            IF FGt(c.total_integration, 0)
            THEN Q(c.photosynthetic_active.v, IntegrationDen * c.total_integration.v)
            ELSE QZero
        total_photon_flux == Q(flux * light_energy_ratio.n, light_energy_ratio.d)
        par_ratio == ParRatio(c)
        par_power == Q(flux * par_ratio.n, par_ratio.d)
    IN [luminous_efficacy |-> IF PowerPositive(power) THEN PyDiv(flux, power) ELSE QZero,
        light_energy_ratio |-> light_energy_ratio,
        total_photon_flux |-> total_photon_flux,
        ppe |-> IF PowerPositive(power)
                THEN PyDiv(total_photon_flux.n, total_photon_flux.d * power)
                ELSE QZero,
        par_ratio |-> par_ratio,
        r_b_ratio |-> BandRatio(c.red_integration, c.blue_integration),
        r_fr_ratio |-> BandRatio(c.red_integration, c.far_red_integration),
        uva_b_ratio |-> BandRatio(c.uva_integration, c.blue_integration),
        v_b_ratio |-> BandRatio(c.violet_integration, c.blue_integration),
        nir_r_ratio |-> BandRatio(c.nir_integration, c.red_integration),
        par_power |-> par_power,
        light_energy_efficiency |-> IF PowerPositive(power)
                                    THEN PyDiv(par_power.n, par_power.d * power)
                                    ELSE QZero,
        heat_loss_rate |-> IF PowerPositive(power) THEN PyDiv(power - flux, power) ELSE QZero]

-----------------------------------------------------------------------------
(* Spectral width: lines 2396-2424, on the filtered arrays *)

\* np.where(radiation >= half_max)[0], half_max = max(radiation) / 2
HalfMaxIndices(rad) ==
    LET peak == CHOOSE x \in {rad[i].v : i \in 1..Len(rad)} :
                    \A i \in 1..Len(rad) : rad[i].v <= x
    IN {i \in 1..Len(rad) : 2 * rad[i].v >= peak}

\* wavelength[indices[-1]] - wavelength[indices[0]] if len(indices) > 1 else 0
SpectralWidth(w, rad) ==
    IF Len(rad) = 0 \/ Len(w) = 0 THEN FNum(0)
    ELSE LET indices == HalfMaxIndices(rad)
             last == CHOOSE i \in indices : \A j \in indices : j <= i
             first == CHOOSE i \in indices : \A j \in indices : i <= j
         IN IF Cardinality(indices) > 1 THEN FNum(w[last].v - w[first].v) ELSE FNum(0)

-----------------------------------------------------------------------------
(* Crop scores: lines 2476-2564.  m holds the ratios, p the percentages.      *)

\* a <= x <= b for the decimals a = a1/a2 and b = b1/b2
Between(x, a1, a2, b1, b2) == QGe(x, a1, a2) /\ QLe(x, b1, b2)

\* the final min(score, 100)
ClampAtNinety(score) == Min(score, 90)
Clamp(score) == Min(score, 100)

\* the blue award of the leafy score made to depend on the R/B award
LeafyScoreChained(m, p) ==
    LET s1 == IF Between(m.r_b_ratio, 5, 10, 15, 10) THEN 30
              ELSE IF Between(m.r_b_ratio, 3, 10, 20, 10) THEN 20 ELSE 10
        s2 == s1 + (IF s1 = 30 /\ QGt(p.blue_percentage, 20, 1) THEN 25
                    ELSE IF QGt(p.blue_percentage, 15, 1) THEN 15 ELSE 5)
        s3 == s2 + (IF QLt(p.green_percentage, 15, 1) THEN 20 ELSE 10)
        s4 == s3 + (IF QGt(m.par_ratio, 8, 10) THEN 25
                    ELSE IF QGt(m.par_ratio, 6, 10) THEN 15 ELSE 5)
    IN Clamp(s4)

\* lines 2478-2506
LeafyScore(m, p) ==
    LET s1 == IF Between(m.r_b_ratio, 5, 10, 15, 10) THEN 30
              ELSE IF Between(m.r_b_ratio, 3, 10, 20, 10) THEN 20 ELSE 10
        s2 == s1 + (IF QGt(p.blue_percentage, 20, 1) THEN 25
                    ELSE IF QGt(p.blue_percentage, 15, 1) THEN 15 ELSE 5)
        s3 == s2 + (IF QLt(p.green_percentage, 15, 1) THEN 20 ELSE 10)
        s4 == s3 + (IF QGt(m.par_ratio, 8, 10) THEN 25
                    ELSE IF QGt(m.par_ratio, 6, 10) THEN 15 ELSE 5)
    IN Clamp(s4)

\* lines 2508-2536
FruitScore(m, p) ==
    LET s1 == IF Between(m.r_b_ratio, 1, 1, 3, 1) THEN 30
              ELSE IF Between(m.r_b_ratio, 7, 10, 4, 1) THEN 20 ELSE 10
        s2 == s1 + (IF QGt(p.red_percentage, 35, 1) THEN 25
                    ELSE IF QGt(p.red_percentage, 25, 1) THEN 15 ELSE 5)
        s3 == s2 + (IF QGt(p.far_red_percentage, 5, 1) THEN 20 ELSE 10)
        s4 == s3 + (IF QGt(m.par_ratio, 8, 10) THEN 25
                    ELSE IF QGt(m.par_ratio, 6, 10) THEN 15 ELSE 5)
    IN Clamp(s4)

\* lines 2538-2564
SeedlingScore(m, p) ==
    LET s1 == IF Between(m.r_b_ratio, 3, 10, 1, 1) THEN 30
              ELSE IF Between(m.r_b_ratio, 2, 10, 15, 10) THEN 20 ELSE 10
        s2 == s1 + (IF QGt(p.blue_percentage, 25, 1) THEN 30
                    ELSE IF QGt(p.blue_percentage, 20, 1) THEN 20 ELSE 10)
        s3 == s2 + (IF QGt(m.uva_b_ratio, 1, 10) THEN 20 ELSE 10)
        s4 == s3 + (IF QGt(m.ppe, 2, 1) THEN 20 ELSE 10)
    IN Clamp(s4)

CropSuitability(m, p) ==
    [leafy |-> LeafyScore(m, p), fruit |-> FruitScore(m, p), seedling |-> SeedlingScore(m, p)]

-----------------------------------------------------------------------------
(* Spectral completeness and balance: lines 2566-2582 *)

BandPercentages(p) ==
    <<p.uvb_percentage, p.uva_percentage, p.violet_percentage, p.blue_percentage,
      p.green_percentage, p.red_percentage, p.far_red_percentage, p.nir_percentage>>

\* non_zero_bands / total_bands
SpectralCompleteness(p) ==
    Q(Cardinality({i \in 1..8 : QGt(BandPercentages(p)[i], 1, 1)}), 8)

\* x < y for two quotients
QLess(x, y) ==
    LET g == GCD(x.d, y.d) IN x.n * (y.d \div g) < y.n * (x.d \div g)

\* max(band_percentages)
MaxBandPercentage(p) ==
    LET all == {BandPercentages(p)[i] : i \in 1..8}
    IN CHOOSE x \in all : \A y \in all : ~QLess(x, y)

\* the final max(spectral_balance, 0)
FloorMissing(balance) == balance
Floor(balance) == IF balance.n < 0 THEN QZero ELSE balance

\* lines 2580-2582
SpectralBalance(p) ==
    LET mx == MaxBandPercentage(p)
    IN Floor(IF QGt(mx, 40, 1) THEN Q(100 * mx.d - mx.n, 60 * mx.d) ELSE Q(1, 1))

-----------------------------------------------------------------------------
(* Optimization suggestions: lines 2603-2637.  A suggestion is named by its  *)
(* rule.                                                                      *)

\* the PPE rule silenced once another rule has fired
SuggestionsSuppressing(m, p) ==
    LET s2 == IF QLt(m.par_ratio, 6, 10) THEN <<"par_low">> ELSE <<>>
        s3 == IF QLt(m.r_b_ratio, 3, 10) THEN <<"rb_low">>
              ELSE IF QGt(m.r_b_ratio, 4, 1) THEN <<"rb_high">> ELSE <<>>
        s4 == IF QLt(p.blue_percentage, 10, 1) THEN <<"blue_low">>
              ELSE IF QGt(p.blue_percentage, 40, 1) THEN <<"blue_high">> ELSE <<>>
        s5 == IF QGt(p.green_percentage, 20, 1) THEN <<"green_high">> ELSE <<>>
        s6 == IF QLt(p.far_red_percentage, 2, 1) THEN <<"far_red_low">>
              ELSE IF QGt(p.far_red_percentage, 15, 1) THEN <<"far_red_high">> ELSE <<>>
        s7 == IF QLt(p.uva_percentage, 1, 1) THEN <<"uva_low">> ELSE <<>>
        s8 == IF QGt(m.heat_loss_rate, 4, 10) THEN <<"heat_loss">> ELSE <<>>
        rest == s2 \o s3 \o s4 \o s5 \o s6 \o s7 \o s8
        s1 == IF QLt(m.ppe, 2, 1) /\ rest = <<>> THEN <<"ppe_low">> ELSE <<>>
    IN s1 \o rest

\* lines 2604-2634
ThresholdSuggestions(m, p) ==
    LET s1 == IF QLt(m.ppe, 2, 1) THEN <<"ppe_low">> ELSE <<>>
        s2 == IF QLt(m.par_ratio, 6, 10) THEN <<"par_low">> ELSE <<>>
        s3 == IF QLt(m.r_b_ratio, 3, 10) THEN <<"rb_low">>
              ELSE IF QGt(m.r_b_ratio, 4, 1) THEN <<"rb_high">> ELSE <<>>
        s4 == IF QLt(p.blue_percentage, 10, 1) THEN <<"blue_low">>
              ELSE IF QGt(p.blue_percentage, 40, 1) THEN <<"blue_high">> ELSE <<>>
        s5 == IF QGt(p.green_percentage, 20, 1) THEN <<"green_high">> ELSE <<>>
        s6 == IF QLt(p.far_red_percentage, 2, 1) THEN <<"far_red_low">>
              ELSE IF QGt(p.far_red_percentage, 15, 1) THEN <<"far_red_high">> ELSE <<>>
        s7 == IF QLt(p.uva_percentage, 1, 1) THEN <<"uva_low">> ELSE <<>>
        s8 == IF QGt(m.heat_loss_rate, 4, 10) THEN <<"heat_loss">> ELSE <<>>
    IN s1 \o s2 \o s3 \o s4 \o s5 \o s6 \o s7 \o s8

\* lines 2636-2637: if not optimization_suggestions: append the 'reasonable' message
WithReasonableAlways(suggestions) == Append(suggestions, "reasonable")
WithReasonable(suggestions) ==
    IF suggestions = <<>> THEN <<"reasonable">> ELSE suggestions

OptimizationSuggestions(m, p) == WithReasonable(ThresholdSuggestions(m, p))

-----------------------------------------------------------------------------
(* Growth stages: lines 2639-2696 *)

\* lines 2642-2650
GerminationScore(m, p) ==
    LET s1 == 50 + (IF Between(p.blue_percentage, 15, 1, 30, 1) THEN 20 ELSE 0)
        s2 == s1 + (IF Between(p.red_percentage, 25, 1, 45, 1) THEN 20 ELSE 0)
        s3 == s2 + (IF QGt(m.ppe, 18, 10) THEN 10 ELSE 0)
    IN Min(s3, 100)

\* lines 2652-2660
SeedlingStageScore(m, p) ==
    LET s1 == 50 + (IF QGt(p.blue_percentage, 25, 1) THEN 25 ELSE 0)
        s2 == s1 + (IF Between(m.r_b_ratio, 5, 10, 12, 10) THEN 20 ELSE 0)
        s3 == s2 + (IF QGt(p.uva_percentage, 2, 1) THEN 5 ELSE 0)
    IN Min(s3, 100)

\* the vegetative score with its R/B window widened to [1.0, 3.0]
VegetativeScoreWideWindow(m, p) ==
    LET s1 == 50 + (IF Between(m.r_b_ratio, 1, 1, 3, 1) THEN 20 ELSE 0)
        s2 == s1 + (IF QGt(m.par_ratio, 7, 10) THEN 15 ELSE 0)
        s3 == s2 + (IF Between(p.green_percentage, 10, 1, 15, 1) THEN 10 ELSE 0)
        s4 == s3 + (IF QGt(p.far_red_percentage, 3, 1) THEN 5 ELSE 0)
    IN Min(s4, 100)

\* lines 2662-2672
VegetativeScore(m, p) ==
    LET s1 == 50 + (IF Between(m.r_b_ratio, 1, 1, 2, 1) THEN 20 ELSE 0)
        s2 == s1 + (IF QGt(m.par_ratio, 7, 10) THEN 15 ELSE 0)
        s3 == s2 + (IF Between(p.green_percentage, 10, 1, 15, 1) THEN 10 ELSE 0)
        s4 == s3 + (IF QGt(p.far_red_percentage, 3, 1) THEN 5 ELSE 0)
    IN Min(s4, 100)

\* the flowering score with its tests turned into an if / elif chain
FloweringScoreFirstMatch(m, p) ==
    Min(50 + (IF QGt(p.red_percentage, 35, 1) THEN 20
              ELSE IF QGt(m.r_b_ratio, 2, 1) THEN 15
              ELSE IF Between(p.far_red_percentage, 5, 1, 12, 1) THEN 10
              ELSE IF QGt(m.r_fr_ratio, 2, 1) THEN 5 ELSE 0), 100)

\* lines 2674-2684
FloweringScore(m, p) ==
    LET s1 == 50 + (IF QGt(p.red_percentage, 35, 1) THEN 20 ELSE 0)
        s2 == s1 + (IF QGt(m.r_b_ratio, 2, 1) THEN 15 ELSE 0)
        s3 == s2 + (IF Between(p.far_red_percentage, 5, 1, 12, 1) THEN 10 ELSE 0)
        s4 == s3 + (IF QGt(m.r_fr_ratio, 2, 1) THEN 5 ELSE 0)
    IN Min(s4, 100)

\* lines 2686-2696
FruitingScore(m, p) ==
    LET s1 == 50 + (IF QGt(m.ppe, 22, 10) THEN 15 ELSE 0)
        s2 == s1 + (IF QGt(m.par_ratio, 8, 10) THEN 15 ELSE 0)
        s3 == s2 + (IF Between(m.r_b_ratio, 15, 10, 3, 1) THEN 15 ELSE 0)
        s4 == s3 + (IF QGt(SpectralCompleteness(p), 6, 10) THEN 5 ELSE 0)
    IN Min(s4, 100)

GrowthStageSuitability(m, p) ==
    [germination |-> GerminationScore(m, p),
     seedling |-> SeedlingStageScore(m, p),
     vegetative |-> VegetativeScore(m, p),
     flowering |-> FloweringScore(m, p),
     fruiting |-> FruitingScore(m, p)]

-----------------------------------------------------------------------------
(* evaluate_light_quality: lines 2715-2731 *)

\* the tier of a total score
RatingOfStrict(total_score) ==
    IF total_score > 8 THEN "excellent" ELSE IF total_score > 6 THEN "good" ELSE "fair"
RatingOf(total_score) ==
    IF total_score >= 8 THEN "excellent" ELSE IF total_score >= 6 THEN "good" ELSE "fair"

evaluate_light_quality(ppe_val, par_ratio_val, rb_ratio) ==
    LET ppe_score == IF QGt(ppe_val, 25, 10) THEN 3 ELSE IF QGt(ppe_val, 2, 1) THEN 2 ELSE 1
        par_score == IF QGt(par_ratio_val, 8, 10) THEN 3
                     ELSE IF QGt(par_ratio_val, 6, 10) THEN 2 ELSE 1
        rb_score == IF Between(rb_ratio, 5, 10, 3, 1) THEN 3
                    ELSE IF Between(rb_ratio, 3, 10, 4, 1) THEN 2 ELSE 1
    IN RatingOf(ppe_score + par_score + rb_score)

\* the results dictionary, lines 2733-2833.  The source keeps the ratios, the
\* scores, the suggestions and the rating beside the band sums, inside
\* results['calculations'].
Results ==
    LET m == Ratios(sums, total_radiation_flux, total_power)
        p == Percentages(sums)
    IN [k |-> "results",
        input_params |-> [total_radiation_flux |-> total_radiation_flux,
                          total_power |-> total_power],
        calculations |-> sums,
        ratios |-> m,
        percentages |-> p,
        crop_suitability |-> CropSuitability(m, p),
        spectral_completeness |-> SpectralCompleteness(p),
        spectral_balance |-> SpectralBalance(p),
        spectral_width |-> SpectralWidth(wavelength, radiation),
        optimization_suggestions |-> OptimizationSuggestions(m, p),
        growth_stage_suitability |-> GrowthStageSuitability(m, p),
        quality_rating |-> evaluate_light_quality(m.ppe, m.par_ratio, m.r_b_ratio)]

\* a division by total_power = 0 was reached
DivisionRaises(m) ==
    \E f \in {"luminous_efficacy", "ppe", "light_energy_efficiency", "heat_loss_rate"} :
        m[f].k = "ZeroDivisionError"

\* lines 2329-2835: return results, df_clean
ReturnResults ==
    /\ pc = "bands"
    /\ IF DivisionRaises(Ratios(sums, total_radiation_flux, total_power))
       THEN /\ exception' = "ZeroDivisionError"
            /\ pc' = "raised"
            /\ UNCHANGED ret
       ELSE /\ ret' = <<Results, df_clean>>
            /\ pc' = "returned"
            /\ UNCHANGED exception
    /\ UNCHANGED display
    /\ UNCHANGED <<inputs, st_error, df_clean, wavelength, radiation,
                   integration_values, sums>>

-----------------------------------------------------------------------------
(* display_results: the priority pass over the suggestions, lines 3218-3240.  *)
(* A suggestion text is kept as the words the pass looks for in it.          *)

\* the words among "PPE", "PAR", "R/B ratio" ('红蓝比') and "heat loss"
\* ('热损失') that the text of a suggestion of lines 2607-2637 contains
Mentions(suggestion) ==
    CASE suggestion = "ppe_low" -> {"PPE"}
      [] suggestion = "par_low" -> {"PAR"}
      [] suggestion = "rb_low" -> {"R/B ratio"}
      [] suggestion = "rb_high" -> {"R/B ratio"}
      [] suggestion = "heat_loss" -> {"heat loss"}
      [] OTHER -> {}

\* the tiers with the heat-loss test left out of the elif
PriorityOfNoHeatLoss(suggestion) ==
    IF "PPE" \in Mentions(suggestion) \/ "PAR" \in Mentions(suggestion) THEN "high"
    ELSE IF "R/B ratio" \in Mentions(suggestion) THEN "medium"
    ELSE "low"

\* lines 3234-3240
PriorityOf(suggestion) ==
    IF "PPE" \in Mentions(suggestion) \/ "PAR" \in Mentions(suggestion) THEN "high"
    ELSE IF "R/B ratio" \in Mentions(suggestion) \/ "heat loss" \in Mentions(suggestion)
         THEN "medium"
    ELSE "low"

\* lines 3227-3240: each tier's list, appended to in the list's order
PrioritySuggestions(suggestions) ==
    [tier \in {"high", "medium", "low"} |->
        SelectSeq(suggestions, LAMBDA x : PriorityOf(x) = tier)]

\* main, lines 2099-2101, and display_results
DisplayResults ==
    /\ pc = "returned"
    /\ ret[1] # None /\ ret[2] # None
    /\ priority_suggestions' = PrioritySuggestions(ret[1].optimization_suggestions)
    /\ pc' = "displayed"
    /\ UNCHANGED <<inputs, st_error, exception, df_clean, wavelength, radiation,
                   integration_values, sums, ret, issues_found>>

Next ==
    \/ InsufficientColumns
    \/ CleanData
    \/ EmptyAfterCleaning
    \/ NoValidSamples
    \/ FilterInvalid
    \/ BandSumsRaise
    \/ ComputeBandSums
    \/ ReturnResults
    \/ DisplayResults

Spec == Init /\ [][Next]_vars
SpecBands == InitBands /\ [][Next]_vars
SpecGrid == InitGrid /\ [][Next]_vars

-----------------------------------------------------------------------------
(* What the claims speak of, read off the input table *)

Terminal == pc \in {"returned", "raised"}

\* a cell that coerces to a number, and the number
Numeric(c) == c.k \in {"num", "numtext", "inf"}
ValueOf(c) == IF c.k = "numtext" THEN FNum(c.v) ELSE c

\* the rows whose first two cells both coerce to a number, in the table's order
KeptRows(d) == SelectSeq(d.rows, LAMBDA r : Numeric(r[1]) /\ Numeric(r[2]))

\* the integration value of a kept row is a finite number
FiniteRow(r) ==
    LET x == Integration(ValueOf(r[1]), ValueOf(r[2])) IN ~isnan(x) /\ ~isinf(x)

HasResult == pc = "returned" /\ ret[1] # None

\* the fatal condition a table is in, "" when in none
FatalCondition(d) ==
    IF d.ncols < 2 THEN "InsufficientColumns"
    ELSE IF Len(KeptRows(d)) = 0 THEN "EmptyAfterCleaning"
    ELSE IF \A i \in 1..Len(KeptRows(d)) : ~FiniteRow(KeptRows(d)[i]) THEN "NoValidSamples"
    ELSE ""

-----------------------------------------------------------------------------
(* C1 *)

Bands == {<<400, 700>>, <<400, 500>>, <<500, 600>>, <<600, 700>>, <<700, 800>>,
          <<315, 400>>, <<280, 315>>, <<380, 420>>, <<700, 850>>}

\* C1: after the NaN/Inf filter the three arrays have one length, position i of
\* each is the same sample, and the membership mask of each of the nine bands
\* ranges over exactly the surviving samples (same length, same order).
C1_FilteredArraysAndMasksAligned ==
    pc = "filtered" =>
        /\ Len(wavelength) = Len(radiation)
        /\ Len(radiation) = Len(integration_values)
        /\ \A i \in 1..Len(integration_values) :
              integration_values[i] = Integration(wavelength[i], radiation[i])
        /\ \A b \in Bands :
              LET mask == RangeMask(df_clean, b[1], b[2], FALSE)
              IN /\ Len(mask) = Len(wavelength)
                 /\ \A i \in 1..Len(wavelength) :
                       mask[i] = (FGe(wavelength[i], b[1]) /\ FLt(wavelength[i], b[2]))

-----------------------------------------------------------------------------
(* C2 *)

\* C2: a table with at least 2 columns, a row whose first two cells coerce to
\* numbers and a sample of finite integration value always ends in a returned
\* result: no failure value, no exception.
C2_OnlyThreeFatalOutcomes ==
    (Terminal /\ FatalCondition(df) = "") => HasResult

-----------------------------------------------------------------------------
(* C3 *)

\* C3: with fewer than 2 columns the function fails before any cleaning or
\* computation: nothing is cleaned or computed and it returns (None, None).
C3_TooFewColumnsFailsFirst ==
    df.ncols < 2 =>
        /\ pc \in {"start", "returned"}
        /\ df_clean = None
        /\ wavelength = <<>> /\ radiation = <<>> /\ integration_values = <<>>
        /\ sums = None
        /\ pc = "returned" => (ret = <<None, None>> /\ st_error = "insufficient_columns")

C3_Witness ==
    /\ pc = "returned"
    /\ df.ncols = 1
    /\ Len(df.rows) = 2
    /\ \A i \in 1..2 : Numeric(df.rows[i][1])

-----------------------------------------------------------------------------
(* C4 *)

\* C4: when no row has both its first and second cell coercible to a number,
\* the analysis ends in the empty-after-cleaning failure, returns (None, None)
\* and computes no metric.
C4_NoNumericRowFailsEmpty ==
    (Terminal /\ df.ncols >= 2 /\ Len(KeptRows(df)) = 0) =>
        /\ pc = "returned"
        /\ ret = <<None, None>>
        /\ st_error = "empty_after_cleaning"
        /\ integration_values = <<>>
        /\ sums = None

\* the wavelength column is all text, the radiation column all numbers
C4_Witness ==
    /\ pc = "returned"
    /\ df.ncols = 2
    /\ Len(df.rows) = 2
    /\ \A i \in 1..2 : df.rows[i][1] = Text /\ df.rows[i][2] = NumText(2)

-----------------------------------------------------------------------------
(* C5 *)

-----------------------------------------------------------------------------
(* C6 *)

MessageOf(condition) ==
    CASE condition = "InsufficientColumns" -> "insufficient_columns"
      [] condition = "EmptyAfterCleaning" -> "empty_after_cleaning"
      [] condition = "NoValidSamples" -> "all_invalid"
      [] OTHER -> ""

-----------------------------------------------------------------------------
(* C7 *)

-----------------------------------------------------------------------------
(* C8 *)

\* C8: cleaning the output of the cleaning step gives the same rows back:
\* nothing dropped, reordered or changed.
C8_CleaningIdempotent ==
    df_clean # None => CleanRows(df_clean) = df_clean.rows

\* a cleaned table that lost a row and holds a number parsed from text
C8_Witness ==
    /\ df_clean # None
    /\ Len(df.rows) = 2
    /\ Len(df_clean.rows) = 1
    /\ \E i \in 1..2 : df.rows[i][1].k = "numtext" /\ Numeric(df.rows[i][2])

-----------------------------------------------------------------------------
(* C9 *)

\* the sum of series[i] over the samples whose wavelength is in [lo, hi)
RECURSIVE HalfOpenSum(_, _, _, _)
HalfOpenSum(w, series, lo, hi) ==
    IF w = <<>> THEN 0
    ELSE LET n == Len(w)
         IN HalfOpenSum(SubSeq(w, 1, n - 1), SubSeq(series, 1, n - 1), lo, hi)
            + (IF lo <= w[n].v /\ w[n].v < hi THEN series[n].v ELSE 0)

AllAt(nm) == Len(wavelength) > 0 /\ \A i \in 1..Len(wavelength) : wavelength[i] = FNum(nm)

\* C9: each of the nine band sums is the sum over the samples with
\* low <= wavelength < high; a spectrum sitting at 500 nm is all in Green and
\* not in Blue, one at 700 nm is all in FarRed and NIR and not in Red or PAR.
C9_HalfOpenBands ==
    sums # None =>
        /\ sums.par_integration = FNum(HalfOpenSum(wavelength, radiation, 400, 700))
        /\ sums.blue_integration = FNum(HalfOpenSum(wavelength, integration_values, 400, 500))
        /\ sums.green_integration = FNum(HalfOpenSum(wavelength, integration_values, 500, 600))
        /\ sums.red_integration = FNum(HalfOpenSum(wavelength, integration_values, 600, 700))
        /\ sums.far_red_integration = FNum(HalfOpenSum(wavelength, integration_values, 700, 800))
        /\ sums.uva_integration = FNum(HalfOpenSum(wavelength, integration_values, 315, 400))
        /\ sums.uvb_integration = FNum(HalfOpenSum(wavelength, integration_values, 280, 315))
        /\ sums.violet_integration = FNum(HalfOpenSum(wavelength, integration_values, 380, 420))
        /\ sums.nir_integration = FNum(HalfOpenSum(wavelength, integration_values, 700, 850))
        /\ AllAt(500) => /\ sums.green_integration = sums.photosynthetic_active
                         /\ sums.blue_integration = FNum(0)
        /\ AllAt(700) => /\ sums.far_red_integration = sums.photosynthetic_active
                         /\ sums.nir_integration = sums.photosynthetic_active
                         /\ sums.red_integration = FNum(0)
                         /\ sums.par_integration = FNum(0)

\* a sample at 500 nm and a sample at 700 nm, both of positive radiation
C9_Witness ==
    /\ sums # None
    /\ wavelength = <<FNum(500), FNum(700)>>
    /\ radiation = <<FNum(2), FNum(2)>>
    /\ sums.green_integration = FNum(10000)
    /\ sums.far_red_integration = FNum(14000)

-----------------------------------------------------------------------------
(* C10 *)

\* C10 as written: for every spectrum that passes cleaning and filtering,
\* extended_light_quality >= light_quality_total.
C10_ExtendedAtLeastTotal ==
    sums # None => sums.extended_light_quality.v >= sums.light_quality_total.v

\* C10 amended: for every spectrum that passes cleaning and filtering and whose
\* radiation values are all non-negative,
\* extended_light_quality >= light_quality_total.
C10_ExtendedAtLeastTotalNonNegative ==
    (sums # None /\ \A i \in 1..Len(radiation) : radiation[i].v >= 0) =>
        sums.extended_light_quality.v >= sums.light_quality_total.v

\* a UV-A sample and a Blue sample: the extended total is the larger one
C10_Witness ==
    /\ sums # None
    /\ wavelength = <<FNum(315), FNum(420)>>
    /\ radiation = <<FNum(2), FNum(2)>>
    /\ sums.light_quality_total = FNum(8400)
    /\ sums.extended_light_quality = FNum(14700)

-----------------------------------------------------------------------------
(* C11 *)

\* blue% + green% + red% + farRed%
Sum4(p) ==
    QAdd(QAdd(QAdd(p.blue_percentage, p.green_percentage), p.red_percentage),
         p.far_red_percentage)

\* a sample of the filtered spectrum lies in UV-A, Violet or NIR
InOverlay(w) ==
    \/ FGe(w, 315) /\ FLt(w, 400)
    \/ FGe(w, 380) /\ FLt(w, 420)
    \/ FGe(w, 700) /\ FLt(w, 850)

OverlaySum(c) == c.uva_integration.v + c.violet_integration.v + c.nir_integration.v

\* C11 as written: whenever the extended total is positive,
\* blue% + green% + red% + farRed% = light_quality_total / extended_light_quality * 100,
\* and the sum is strictly below 100 as soon as any sample lies in UV-A, Violet
\* or NIR.
C11_CoreFourSumBelow100WithOverlaySample ==
    (HasResult /\ FGt(sums.extended_light_quality, 0)) =>
        /\ Sum4(ret[1].percentages)
             = Q(sums.light_quality_total.v * 100, sums.extended_light_quality.v)
        /\ (\E i \in 1..Len(wavelength) : InOverlay(wavelength[i])) =>
              QLt(Sum4(ret[1].percentages), 100, 1)

\* C11 amended: whenever the extended total is positive,
\* blue% + green% + red% + farRed% = light_quality_total / extended_light_quality * 100;
\* the sum is strictly below 100 exactly when the UV-A, Violet and NIR sums
\* add up to a positive value, which is the case as soon as no radiation is
\* negative and a sample of positive radiation lies in UV-A, Violet or NIR.
C11_CoreFourSumBelow100WithOverlayEnergy ==
    (HasResult /\ FGt(sums.extended_light_quality, 0)) =>
        /\ Sum4(ret[1].percentages)
             = Q(sums.light_quality_total.v * 100, sums.extended_light_quality.v)
        /\ QLt(Sum4(ret[1].percentages), 100, 1) <=> OverlaySum(sums) > 0
        /\ (/\ \A i \in 1..Len(radiation) : radiation[i].v >= 0
            /\ \E i \in 1..Len(wavelength) : InOverlay(wavelength[i]) /\ radiation[i].v > 0)
              => QLt(Sum4(ret[1].percentages), 100, 1)

\* a UV-A sample of positive radiation beside the four core bands: the four
\* percentages sum to less than 100
C11_Witness ==
    /\ HasResult
    /\ FGt(sums.extended_light_quality, 0)
    /\ FGt(sums.uva_integration, 0)
    /\ FGt(sums.blue_integration, 0)
    /\ Sum4(ret[1].percentages)
         = Q(sums.light_quality_total.v * 100, sums.extended_light_quality.v)
    /\ QLt(Sum4(ret[1].percentages), 100, 1)

-----------------------------------------------------------------------------
(* C12 *)

\* C12: once the band sums are computed the function returns a result, also
\* with total_power = 0 (no exception); in it ppe is
\* total_photon_flux / total_power when total_power > 0 and 0 otherwise, and
\* light_energy_efficiency is 0 when total_power = 0.
C12_PpeGuardedByPositivePower ==
    /\ exception # "ZeroDivisionError"
    /\ (Terminal /\ sums # None) =>
          /\ HasResult
          /\ ret[1].ratios.ppe =
                IF total_power > 0
                THEN Q(ret[1].ratios.total_photon_flux.n,
                       ret[1].ratios.total_photon_flux.d * total_power)
                ELSE QZero
          /\ total_power = 0 => ret[1].ratios.light_energy_efficiency = QZero

\* a lamp of power 0 over a spectrum with a positive photon flux
C12_Witness ==
    /\ HasResult
    /\ total_power = 0
    /\ ret[1].ratios.total_photon_flux.n > 0
    /\ ret[1].ratios.ppe = QZero
    /\ ret[1].ratios.light_energy_efficiency = QZero

-----------------------------------------------------------------------------
(* C13 *)

\* the five band ratios: the result's field, the numerator, the denominator
RatioTerms(c) ==
    {<<"r_b_ratio", c.red_integration, c.blue_integration>>,
     <<"r_fr_ratio", c.red_integration, c.far_red_integration>>,
     <<"uva_b_ratio", c.uva_integration, c.blue_integration>>,
     <<"v_b_ratio", c.violet_integration, c.blue_integration>>,
     <<"nir_r_ratio", c.nir_integration, c.red_integration>>}

\* C13 as written: each of the five ratios is numerator / denominator whenever
\* the denominator is non-zero and 0 when the denominator is zero.
C13_RatioDefinedForNonZeroDenominator ==
    HasResult =>
        \A t \in RatioTerms(sums) :
            ret[1].ratios[t[1]] = IF t[3].v # 0 THEN Q(t[2].v, t[3].v) ELSE QZero

\* C13 amended: each of the five ratios is numerator / denominator whenever
\* the denominator is positive and 0 when the denominator is zero or negative.
C13_RatioDefinedForPositiveDenominator ==
    HasResult =>
        \A t \in RatioTerms(sums) :
            ret[1].ratios[t[1]] = IF t[3].v > 0 THEN Q(t[2].v, t[3].v) ELSE QZero

\* a FarRed sample of positive radiation and a Red sample of negative radiation:
\* R/Fr is the quotient, NIR/R is 0 over its negative denominator
C13_Witness ==
    /\ HasResult
    /\ sums.far_red_integration = FNum(14000)
    /\ sums.nir_integration = FNum(14000)
    /\ sums.red_integration = FNum(-6000)
    /\ ret[1].ratios.r_fr_ratio = Q(-3, 7)
    /\ ret[1].ratios.nir_r_ratio = QZero

-----------------------------------------------------------------------------
(* C14 *)

\* the sum of a series of finite values
RECURSIVE SumOf(_)
SumOf(series) ==
    IF series = <<>> THEN 0 ELSE series[1].v + SumOf(Tail(series))

\* every sample of non-zero radiation has its wavelength in [400, 700)
AllRadiationInPar ==
    \A i \in 1..Len(wavelength) :
        radiation[i].v # 0 => FGe(wavelength[i], 400) /\ FLt(wavelength[i], 700)

-----------------------------------------------------------------------------
(* C15 *)

\* the seven bands other than Blue: their sums and their percentages
OtherBandSums(c) ==
    {c.green_integration, c.red_integration, c.far_red_integration, c.uva_integration,
     c.uvb_integration, c.violet_integration, c.nir_integration}
OtherBandPercentages(p) ==
    {p.green_percentage, p.red_percentage, p.far_red_percentage, p.uva_percentage,
     p.uvb_percentage, p.violet_percentage, p.nir_percentage}

\* a single sample of positive radiation in [420, 500)
SingleBlueSample ==
    /\ Len(wavelength) = 1
    /\ radiation[1].v > 0
    /\ FGe(wavelength[1], 420) /\ FLt(wavelength[1], 500)

-----------------------------------------------------------------------------
(* C16 *)

\* the sum of the three sub-scores
SubScoreSum(m) ==
    (IF QGt(m.ppe, 25, 10) THEN 3 ELSE IF QGt(m.ppe, 20, 10) THEN 2 ELSE 1)
    + (IF QGt(m.par_ratio, 8, 10) THEN 3 ELSE IF QGt(m.par_ratio, 6, 10) THEN 2 ELSE 1)
    + (IF QGe(m.r_b_ratio, 5, 10) /\ QLe(m.r_b_ratio, 30, 10) THEN 3
       ELSE IF QGe(m.r_b_ratio, 3, 10) /\ QLe(m.r_b_ratio, 40, 10) THEN 2 ELSE 1)

-----------------------------------------------------------------------------
(* C17 *)

\* the four awards of the leafy-vegetable score
LeafyAwards(m, p) ==
    <<IF QGe(m.r_b_ratio, 5, 10) /\ QLe(m.r_b_ratio, 15, 10) THEN 30
      ELSE IF QGe(m.r_b_ratio, 3, 10) /\ QLe(m.r_b_ratio, 20, 10) THEN 20 ELSE 10,
      IF QGt(p.blue_percentage, 20, 1) THEN 25
      ELSE IF QGt(p.blue_percentage, 15, 1) THEN 15 ELSE 5,
      IF QLt(p.green_percentage, 15, 1) THEN 20 ELSE 10,
      IF QGt(m.par_ratio, 8, 10) THEN 25
      ELSE IF QGt(m.par_ratio, 6, 10) THEN 15 ELSE 5>>

\* C17: the leafy-vegetable score is min(100, a + b + c + d), a by R/B
\* (30 / 20 / 10), b by blue% (25 / 15 / 5), c by green% (20 / 10), d by
\* par_ratio (25 / 15 / 5), each award chosen on its own; the score is an
\* integer in 0..100.
C17_LeafyScoreIsSumOfFourAwards ==
    HasResult =>
        LET a == LeafyAwards(ret[1].ratios, ret[1].percentages)
            total == a[1] + a[2] + a[3] + a[4]
        IN /\ ret[1].crop_suitability.leafy = (IF total > 100 THEN 100 ELSE total)
           /\ ret[1].crop_suitability.leafy \in 0..100

\* the top blue award beside a lower R/B award, and a score below the clamp
C17_Witness ==
    /\ HasResult
    /\ LeafyAwards(ret[1].ratios, ret[1].percentages)[1] = 20
    /\ LeafyAwards(ret[1].ratios, ret[1].percentages)[2] = 25
    /\ LeafyAwards(ret[1].ratios, ret[1].percentages)[3] = 10
    /\ ret[1].crop_suitability.leafy = 70

-----------------------------------------------------------------------------
(* C18 *)

\* the conditions of each growth stage, each with whether it is satisfied and
\* the bonus it adds
StageConditions(m, p) ==
    [germination |->
        <<<<QGe(p.blue_percentage, 15, 1) /\ QLe(p.blue_percentage, 30, 1), 20>>,
          <<QGe(p.red_percentage, 25, 1) /\ QLe(p.red_percentage, 45, 1), 20>>,
          <<QGt(m.ppe, 18, 10), 10>>>>,
     seedling |->
        <<<<QGt(p.blue_percentage, 25, 1), 25>>,
          <<QGe(m.r_b_ratio, 5, 10) /\ QLe(m.r_b_ratio, 12, 10), 20>>,
          <<QGt(p.uva_percentage, 2, 1), 5>>>>,
     vegetative |->
        <<<<QGe(m.r_b_ratio, 10, 10) /\ QLe(m.r_b_ratio, 20, 10), 20>>,
          <<QGt(m.par_ratio, 7, 10), 15>>,
          <<QGe(p.green_percentage, 10, 1) /\ QLe(p.green_percentage, 15, 1), 10>>,
          <<QGt(p.far_red_percentage, 3, 1), 5>>>>,
     flowering |->
        <<<<QGt(p.red_percentage, 35, 1), 20>>,
          <<QGt(m.r_b_ratio, 20, 10), 15>>,
          <<QGe(p.far_red_percentage, 5, 1) /\ QLe(p.far_red_percentage, 12, 1), 10>>,
          <<QGt(m.r_fr_ratio, 20, 10), 5>>>>,
     fruiting |->
        <<<<QGt(m.ppe, 22, 10), 15>>,
          <<QGt(m.par_ratio, 8, 10), 15>>,
          <<QGe(m.r_b_ratio, 15, 10) /\ QLe(m.r_b_ratio, 30, 10), 15>>,
          <<QGt(Q(Cardinality({b \in {"uvb", "uva", "violet", "blue", "green", "red",
                                       "far_red", "nir"} :
                                  QGt(p[b \o "_percentage"], 1, 1)}), 8), 6, 10), 5>>>>]

Stages == {"germination", "seedling", "vegetative", "flowering", "fruiting"}

\* the number of satisfied conditions and the sum of their bonuses
RECURSIVE SatisfiedCount(_)
SatisfiedCount(conds) ==
    IF conds = <<>> THEN 0
    ELSE (IF conds[1][1] THEN 1 ELSE 0) + SatisfiedCount(Tail(conds))

RECURSIVE BonusSum(_)
BonusSum(conds) ==
    IF conds = <<>> THEN 0
    ELSE (IF conds[1][1] THEN conds[1][2] ELSE 0) + BonusSum(Tail(conds))

\* C18 as written: each growth-stage score is min(100, 50 + the bonuses of its
\* satisfied conditions), and every bonus is between 10 and 25 points, so that
\* k satisfied conditions add between 10 k and 25 k points.
C18_StageBonusesBetween10And25 ==
    HasResult =>
        \A s \in Stages :
            LET k == SatisfiedCount(StageConditions(ret[1].ratios, ret[1].percentages)[s])
            IN \E b \in (10 * k)..(25 * k) :
                  ret[1].growth_stage_suitability[s] = (IF 50 + b > 100 THEN 100 ELSE 50 + b)

\* C18 amended: each growth-stage score is min(100, 50 + the bonuses of its
\* satisfied conditions), every condition tested on its own, and every bonus is
\* a fixed amount between 5 and 25 points; Flowering adds 20 for red% > 35,
\* 15 for R/B > 2.0, 10 for farRed% in [5, 12] and 5 for R/Fr > 2.0.
C18_StageBonusesBetween5And25 ==
    HasResult =>
        \A s \in Stages :
            LET conds == StageConditions(ret[1].ratios, ret[1].percentages)[s]
            IN /\ \A i \in 1..Len(conds) : conds[i][2] \in 5..25
               /\ ret[1].growth_stage_suitability[s]
                     = (IF 50 + BonusSum(conds) > 100 THEN 100 ELSE 50 + BonusSum(conds))

\* Flowering with its first condition failing and later ones satisfied
C18_Witness ==
    /\ HasResult
    /\ LET conds == StageConditions(ret[1].ratios, ret[1].percentages).flowering
       IN /\ ~conds[1][1]
          /\ conds[3][1]
          /\ conds[4][1]
    /\ ret[1].growth_stage_suitability.flowering >= 65

-----------------------------------------------------------------------------
(* C19 *)

\* the rules in their fixed order
RuleOrder ==
    <<"ppe_low", "par_low", "rb_low", "rb_high", "blue_low", "blue_high", "green_high",
      "far_red_low", "far_red_high", "uva_low", "heat_loss">>

\* the rules whose threshold is violated
Fired(m, p) ==
    {r \in {RuleOrder[i] : i \in 1..Len(RuleOrder)} :
        CASE r = "ppe_low" -> QLt(m.ppe, 20, 10)
          [] r = "par_low" -> QLt(m.par_ratio, 6, 10)
          [] r = "rb_low" -> QLt(m.r_b_ratio, 3, 10)
          [] r = "rb_high" -> QGt(m.r_b_ratio, 40, 10)
          [] r = "blue_low" -> QLt(p.blue_percentage, 10, 1)
          [] r = "blue_high" -> QGt(p.blue_percentage, 40, 1)
          [] r = "green_high" -> QGt(p.green_percentage, 20, 1)
          [] r = "far_red_low" -> QLt(p.far_red_percentage, 2, 1)
          [] r = "far_red_high" -> QGt(p.far_red_percentage, 15, 1)
          [] r = "uva_low" -> QLt(p.uva_percentage, 1, 1)
          [] r = "heat_loss" -> QGt(m.heat_loss_rate, 4, 10)}

\* C19: the suggestions of the threshold rules in the list are those of the
\* rules whose threshold is violated, each once, whatever other rules fired,
\* and in the fixed order of the rules.
C19_SuggestionsAreTheViolatedRulesInOrder ==
    HasResult =>
        SelectSeq(ret[1].optimization_suggestions, LAMBDA r : r # "reasonable")
            = SelectSeq(RuleOrder,
                        LAMBDA r : r \in Fired(ret[1].ratios, ret[1].percentages))

\* the first and the last rule fired together with rules in between
C19_Witness ==
    /\ HasResult
    /\ Len(ret[1].optimization_suggestions) >= 4
    /\ ret[1].optimization_suggestions[1] = "ppe_low"
    /\ ret[1].optimization_suggestions[2] = "par_low"
    /\ ret[1].optimization_suggestions[Len(ret[1].optimization_suggestions)] = "heat_loss"

-----------------------------------------------------------------------------
(* C20 *)

\* C20: the suggestion list of a returned result is not empty; it holds the
\* 'reasonable' message iff no threshold rule fired, and then that message is
\* its only element.
C20_ReasonableIffNoRuleFired ==
    HasResult =>
        LET list == ret[1].optimization_suggestions
            has == \E i \in 1..Len(list) : list[i] = "reasonable"
        IN /\ list # <<>>
           /\ has <=> Fired(ret[1].ratios, ret[1].percentages) = {}
           /\ has => list = <<"reasonable">>

\* a lamp and a spectrum within every threshold
C20_Witness ==
    /\ HasResult
    /\ Fired(ret[1].ratios, ret[1].percentages) = {}
    /\ ret[1].optimization_suggestions = <<"reasonable">>

-----------------------------------------------------------------------------
(* C21 *)

HighSuggestions == {"ppe_low", "par_low"}
MediumSuggestions == {"rb_low", "rb_high", "heat_loss"}

\* C21: after the priority pass the high tier holds the low-PPE and low-PAR
\* suggestions, the medium tier the two R/B suggestions and the heat-loss
\* suggestion, the low tier every other suggestion ('reasonable' included),
\* each tier in the order of the suggestion list, so that every suggestion is
\* in exactly one tier.
C21_EverySuggestionInItsTierInOrder ==
    pc = "displayed" =>
        LET list == ret[1].optimization_suggestions
        IN /\ priority_suggestions.high = SelectSeq(list, LAMBDA x : x \in HighSuggestions)
           /\ priority_suggestions.medium
                 = SelectSeq(list, LAMBDA x : x \in MediumSuggestions)
           /\ priority_suggestions.low
                 = SelectSeq(list, LAMBDA x : x \notin HighSuggestions \cup MediumSuggestions)
           /\ Len(priority_suggestions.high) + Len(priority_suggestions.medium)
                 + Len(priority_suggestions.low) = Len(list)

\* two suggestions in each of the high and medium tiers, more in the low tier
C21_Witness ==
    /\ pc = "displayed"
    /\ priority_suggestions.high = <<"ppe_low", "par_low">>
    /\ priority_suggestions.medium = <<"rb_high", "heat_loss">>
    /\ Len(priority_suggestions.low) >= 2

-----------------------------------------------------------------------------
(* C22 *)

\* the eight band percentages of a result
EightPercentages(p) ==
    {p.uvb_percentage, p.uva_percentage, p.violet_percentage, p.blue_percentage,
     p.green_percentage, p.red_percentage, p.far_red_percentage, p.nir_percentage}

\* the bands whose percentage is strictly greater than 1
BandsAboveOne(p) ==
    {b \in {"uvb", "uva", "violet", "blue", "green", "red", "far_red", "nir"} :
        QGt(p[b \o "_percentage"], 1, 1)}

\* 1 - max(0, x - 40) / 60, not below 0
BalanceOf(x) ==
    IF QLe(x, 40, 1) THEN Q(1, 1)
    ELSE IF QGe(x, 100, 1) THEN QZero
    ELSE Q(100 * x.d - x.n, 60 * x.d)

\* C22: spectral_completeness is (number of the 8 bands whose percentage is
\* strictly greater than 1) / 8; spectral_balance is 1 - max(0, mx - 40) / 60
\* clamped below at 0, mx the maximum of the 8 band percentages; it lies in
\* [0, 1] and is 1 iff no band percentage exceeds 40.
C22_CompletenessAndBalance ==
    HasResult =>
        LET p == ret[1].percentages
            balance == ret[1].spectral_balance
        IN /\ ret[1].spectral_completeness = Q(Cardinality(BandsAboveOne(p)), 8)
           /\ \E mx \in EightPercentages(p) :
                 /\ \A x \in EightPercentages(p) : ~QLess(mx, x)
                 /\ balance = BalanceOf(mx)
           /\ QGe(balance, 0, 1) /\ QLe(balance, 1, 1)
           /\ balance = Q(1, 1) <=> \A x \in EightPercentages(p) : QLe(x, 40, 1)

\* a band above 100 %, beside a negative band sum: the balance is held at 0
C22_Witness ==
    /\ HasResult
    /\ \E x \in EightPercentages(ret[1].percentages) : QGt(x, 100, 1)
    /\ ret[1].spectral_balance = QZero
    /\ ret[1].spectral_completeness = Q(1, 8)

-----------------------------------------------------------------------------
(* C23 *)

\* every cell of column col of the table is invalid: null or not a number
WhollyInvalid(d, col) == \A i \in 1..Len(d.rows) : ~Numeric(d.rows[i][col])

\* C23: when cleaning leaves no rows, the causes listed name the wavelength
\* column iff every wavelength cell is invalid (null or non-numeric, in any
\* mixture), the radiation column iff every radiation cell is invalid, and
\* are the generic format message only when neither column is wholly invalid.
C23_CauseNamesEveryWhollyInvalidColumn ==
    (pc = "returned" /\ st_error = "empty_after_cleaning") =>
        issues_found =
            IF ~WhollyInvalid(df, 1) /\ ~WhollyInvalid(df, 2) THEN <<"format">>
            ELSE (IF WhollyInvalid(df, 1) THEN <<"wavelength_all_invalid">> ELSE <<>>)
                 \o (IF WhollyInvalid(df, 2) THEN <<"radiation_all_invalid">> ELSE <<>>)

-----------------------------------------------------------------------------
(* C24 *)

NonNegativeRadiation == \A i \in 1..Len(radiation) : radiation[i].v >= 0

\* C24: for a spectrum without negative radiation each of the eight band
\* percentages lies in [0, 100].
C24_PercentagesWithin0And100 ==
    (HasResult /\ NonNegativeRadiation) =>
        \A x \in EightPercentages(ret[1].percentages) : QGe(x, 0, 1) /\ QLe(x, 100, 1)

-----------------------------------------------------------------------------
(* C25 *)

\* the samples whose radiation is at least half the peak radiation
AtLeastHalfPeak ==
    {i \in 1..Len(radiation) :
        \A j \in 1..Len(radiation) : 2 * radiation[i].v >= radiation[j].v}

\* C25: spectral_width is non-negative for every cleaned spectrum, whatever
\* the order of its wavelengths, and 0 when fewer than two samples have
\* radiation >= half the peak radiation.
C25_SpectralWidthNonNegative ==
    HasResult =>
        /\ ret[1].spectral_width.v >= 0
        /\ Cardinality(AtLeastHalfPeak) < 2 => ret[1].spectral_width = FNum(0)

-----------------------------------------------------------------------------
(* C26 *)

\* the tier of the PPE and par_ratio sub-scores with an R/B sub-score of 1
TierWithRbScoreOne(m) ==
    LET s == (IF QGt(m.ppe, 25, 10) THEN 3 ELSE IF QGt(m.ppe, 20, 10) THEN 2 ELSE 1)
             + (IF QGt(m.par_ratio, 8, 10) THEN 3
                ELSE IF QGt(m.par_ratio, 6, 10) THEN 2 ELSE 1)
             + 1
    IN IF s >= 8 THEN "excellent" ELSE IF s >= 6 THEN "good" ELSE "fair"

\* x is an element of the list
InList(x, list) == \E i \in 1..Len(list) : list[i] = x

\* C26: with a positive Red sum and a Blue sum of zero r_b_ratio is 0, the
\* 'R/B too low' suggestion is emitted, the 'R/B too high' suggestion is not,
\* and the rating is the one of an R/B sub-score of 1.
C26_RedWithoutBlueReadsAsLowRatio ==
    (HasResult /\ sums.red_integration.v > 0 /\ sums.blue_integration.v = 0) =>
        /\ ret[1].ratios.r_b_ratio = QZero
        /\ InList("rb_low", ret[1].optimization_suggestions)
        /\ ~InList("rb_high", ret[1].optimization_suggestions)
        /\ ret[1].quality_rating = TierWithRbScoreOne(ret[1].ratios)

\* red light only, from an efficient lamp: the rating stays in the middle tier
C26_Witness ==
    /\ HasResult
    /\ sums.red_integration.v > 0
    /\ sums.blue_integration.v = 0
    /\ QGt(ret[1].ratios.ppe, 25, 10)
    /\ QGt(ret[1].ratios.par_ratio, 8, 10)
    /\ InList("rb_low", ret[1].optimization_suggestions)
    /\ ret[1].quality_rating = "good"

-----------------------------------------------------------------------------
(* C27 *)

\* the awards of the fruit and of the seedling crop score
FruitAwards(m, p) ==
    <<IF QGe(m.r_b_ratio, 10, 10) /\ QLe(m.r_b_ratio, 30, 10) THEN 30
      ELSE IF QGe(m.r_b_ratio, 7, 10) /\ QLe(m.r_b_ratio, 40, 10) THEN 20 ELSE 10,
      IF QGt(p.red_percentage, 35, 1) THEN 25
      ELSE IF QGt(p.red_percentage, 25, 1) THEN 15 ELSE 5,
      IF QGt(p.far_red_percentage, 5, 1) THEN 20 ELSE 10,
      IF QGt(m.par_ratio, 8, 10) THEN 25
      ELSE IF QGt(m.par_ratio, 6, 10) THEN 15 ELSE 5>>
SeedlingAwards(m, p) ==
    <<IF QGe(m.r_b_ratio, 3, 10) /\ QLe(m.r_b_ratio, 10, 10) THEN 30
      ELSE IF QGe(m.r_b_ratio, 2, 10) /\ QLe(m.r_b_ratio, 15, 10) THEN 20 ELSE 10,
      IF QGt(p.blue_percentage, 25, 1) THEN 30
      ELSE IF QGt(p.blue_percentage, 20, 1) THEN 20 ELSE 10,
      IF QGt(m.uva_b_ratio, 1, 10) THEN 20 ELSE 10,
      IF QGt(m.ppe, 20, 10) THEN 20 ELSE 10>>

Sum4Awards(a) == a[1] + a[2] + a[3] + a[4]

\* C27: the clamp to 100 never binds: each crop score is the plain sum of its
\* four awards and each growth-stage score is 50 plus its bonuses; the leafy
\* and the fruit score lie in 30..100, the seedling score in 40..100 and the
\* five growth-stage scores in 50..100.
C27_ClampNeverBinds ==
    HasResult =>
        LET m == ret[1].ratios
            p == ret[1].percentages
        IN /\ ret[1].crop_suitability.leafy = Sum4Awards(LeafyAwards(m, p))
           /\ ret[1].crop_suitability.fruit = Sum4Awards(FruitAwards(m, p))
           /\ ret[1].crop_suitability.seedling = Sum4Awards(SeedlingAwards(m, p))
           /\ ret[1].crop_suitability.leafy \in 30..100
           /\ ret[1].crop_suitability.fruit \in 30..100
           /\ ret[1].crop_suitability.seedling \in 40..100
           /\ \A s \in Stages :
                 /\ ret[1].growth_stage_suitability[s] = 50 + BonusSum(StageConditions(m, p)[s])
                 /\ ret[1].growth_stage_suitability[s] \in 50..100

\* a crop score at the top of its table: every award the highest, and 100
C27_Witness ==
    /\ HasResult
    /\ LeafyAwards(ret[1].ratios, ret[1].percentages) = <<30, 25, 20, 25>>
    /\ ret[1].crop_suitability.leafy = 100
    /\ ret[1].growth_stage_suitability.vegetative = 100

-----------------------------------------------------------------------------
(* C28 *)

\* C28: no result has a Vegetative score of 100 and a Flowering score of 100:
\* the Vegetative R/B bonus (20, R/B in [1.0, 2.0]) and the Flowering R/B
\* bonus (15, R/B > 2.0) are never awarded together, so one of the two scores
\* misses its R/B bonus; likewise the Seedling-stage bonus (20, R/B in
\* [0.5, 1.2]) and the Fruiting bonus (15, R/B in [1.5, 3.0]).
C28_RbBonusesExcludeEachOther ==
    HasResult =>
        LET g == ret[1].growth_stage_suitability
            rb == ret[1].ratios.r_b_ratio
        IN /\ ~(g.vegetative = 100 /\ g.flowering = 100)
           /\ g.vegetative <= 80 \/ g.flowering <= 85
           /\ g.seedling <= 80 \/ g.fruiting <= 85
           /\ ~((QGe(rb, 10, 10) /\ QLe(rb, 20, 10)) /\ QGt(rb, 20, 10))
           /\ ~((QGe(rb, 5, 10) /\ QLe(rb, 12, 10)) /\ (QGe(rb, 15, 10) /\ QLe(rb, 30, 10)))

\* a Vegetative score of 100 beside a Flowering score that has its other bonuses
C28_Witness ==
    /\ HasResult
    /\ ret[1].growth_stage_suitability.vegetative = 100
    /\ ret[1].growth_stage_suitability.flowering >= 75
    /\ ret[1].growth_stage_suitability.flowering <= 85

-----------------------------------------------------------------------------
(* C29 *)

\* C29: with total_power = 0 the low-PPE suggestion is in the list and the
\* heat-loss suggestion is not (heat_loss_rate is 0), the 'reasonable' message
\* is not in the list and the rating is not the top tier.
C29_ZeroPowerDiagnostics ==
    (HasResult /\ total_power = 0) =>
        /\ InList("ppe_low", ret[1].optimization_suggestions)
        /\ ~InList("heat_loss", ret[1].optimization_suggestions)
        /\ ret[1].ratios.heat_loss_rate = QZero
        /\ ~InList("reasonable", ret[1].optimization_suggestions)
        /\ ret[1].quality_rating # "excellent"

\* a lamp of power 0 whose spectrum violates no spectral threshold: low PPE
\* is the only suggestion and the rating is the middle tier
C29_Witness ==
    /\ HasResult
    /\ total_power = 0
    /\ ret[1].optimization_suggestions = <<"ppe_low">>
    /\ ret[1].quality_rating = "good"

-----------------------------------------------------------------------------
(* C30 *)

\* C30: for a spectrum without negative radiation the NIR sum is >= the FarRed
\* sum and the Violet sum is <= UV-A + Blue; hence farRed% <= 50 and
\* violet% <= 50.
C30_OverlappingBandsBounded ==
    (HasResult /\ NonNegativeRadiation) =>
        /\ sums.nir_integration.v >= sums.far_red_integration.v
        /\ sums.violet_integration.v <= sums.uva_integration.v + sums.blue_integration.v
        /\ QLe(ret[1].percentages.far_red_percentage, 50, 1)
        /\ QLe(ret[1].percentages.violet_percentage, 50, 1)

\* a Violet sample that is also in Blue and a FarRed sample that is also in NIR
C30_Witness ==
    /\ HasResult
    /\ wavelength = <<FNum(400), FNum(700)>>
    /\ radiation = <<FNum(2), FNum(2)>>
    /\ sums.violet_integration = sums.blue_integration
    /\ sums.nir_integration = sums.far_red_integration
    /\ QGt(ret[1].percentages.violet_percentage, 0, 1)
    /\ QLt(ret[1].percentages.far_red_percentage, 50, 1)

=============================================================================
